---- MODULE Spec2Model ----
(***************************************************************************)
(* Model of teii.finance: FinanceClient (finance.py) and                   *)
(* TimeSeriesFinanceClient (timeseries.py).                                *)
(*                                                                         *)
(* One behaviour is the life of one client object: the constructor runs    *)
(* step by step (API key, then per ticker: transport call, response        *)
(* processing, ticker validation; then the data frames are built), and a   *)
(* constructed client answers queries.                                     *)
(*                                                                         *)
(* Python values are modelled with their type where the code depends on    *)
(* it.  Decimal numbers are kept in hundredths (12.41 is 1241).            *)
(***************************************************************************)
EXTENDS Integers, Sequences, FiniteSets, TLC

VARIABLES
    ticker,         \* self._ticker: the list of tickers given to the constructor
    api_key,        \* self._api_key
    env_key,        \* os.environ's TEII_FINANCE_API_KEY (None when absent)
    pc,             \* position of the constructor / state of the client
    i,              \* loop position (1-based) in the ticker list
    response,       \* the requests.Response in flight between two steps
    json_metadata,  \* self._json_metadata
    json_data,      \* self._json_data
    data_frame,     \* self._data_frame
    calls,          \* URLs handed to requests.get so far, in order
    error,          \* the exception that ended construction (kind "" when none)
    result,         \* outcome of the last call on the constructed client
    ties,           \* how sort_values ordered rows of equal key, where observed
    files           \* the file system: the text stored under each path

vars == <<ticker, api_key, env_key, pc, i, response, json_metadata, json_data,
          data_frame, calls, error, result, ties, files>>

---------------------------------------------------------------------------
(* Bounds of the model *)

\* longest ticker list handed to the constructor
MaxTickers == 2

\* largest number of dates in one data block
MaxRows == 2

---------------------------------------------------------------------------
(* Python values *)

PyNone == [type |-> "NoneType", val |-> ""]
PyStr(s) == [type |-> "str", val |-> s]
PyInt(s) == [type |-> "int", val |-> s]

\* Python truthiness of None, str and int values
Truthy(v) ==
    CASE v.type = "NoneType" -> FALSE
      [] v.type = "str" -> v.val # ""
      [] v.type = "int" -> v.val # "0"

\* an exception: its class, its message (the URL and status an API error
\* reports apart) and the method that raised it
NoError == [kind |-> "", text |-> "", url |-> "", status |-> 0, where |-> ""]
Raise(kind, text, where) ==
    [kind |-> kind, text |-> text, url |-> "", status |-> 0, where |-> where]

NoResponse == [raised |-> FALSE, url |-> "", status_code |-> 0,
               body |-> [type |-> "none"]]
\* an optional argument of a query: None, or a value
NoArg == [given |-> FALSE, v |-> 0]
Arg(v) == [given |-> TRUE, v |-> v]

\* the outcome of a call on the client: the method and its arguments, the
\* exception it raised (class and message) or the value it returned
NoResult == [op |-> "", from |-> NoArg, to |-> NoArg, path |-> "", raised |-> "",
             text |-> "", out |-> <<>>]

\* the paths handed to to_csv: one that can be written, one in no directory
Paths == {"test.csv", "nodir/test.csv"}

\* a file: absent, or the header and the lines of a delimited text
NoFile == [exists |-> FALSE, header |-> {}, lines |-> <<>>]
NoFiles == [p \in Paths |-> NoFile]

---------------------------------------------------------------------------
(* Inputs: tickers, keys *)

Tickers == {"IBM", "AAPL"}

\* api_key argument: omitted/None, empty, a usable string, a non-string
KeyArgs == {PyNone, PyStr(""), PyStr("nokey"), PyInt("123"), PyInt("0")}

\* os.getenv("TEII_FINANCE_API_KEY"): absent or set
EnvKeys == {PyNone, PyStr("envkey")}

RECURSIVE SeqsUpTo(_, _)
\* all sequences over S of length 0..n
SeqsUpTo(S, n) ==
    IF n = 0 THEN {<<>>}
    ELSE LET shorter == SeqsUpTo(S, n - 1)
         IN shorter \cup {Append(s, x) : s \in {q \in shorter : Len(q) = n - 1}, x \in S}

TickerLists == SeqsUpTo(Tickers, MaxTickers)

---------------------------------------------------------------------------
(* Raw JSON of a data block *)

\* a JSON numeric string, worth c hundredths
NumStr(c) == [t |-> "num", c |-> c]
\* a JSON string that is no number
BadStr == [t |-> "str", c |-> 0]

RawKeys == {"1. open", "2. high", "3. low", "4. close", "5. adjusted close",
               "6. volume", "7. dividend amount", "8. split coefficient"}

data_field2name_type ==
    [key \in RawKeys |->
        CASE key = "1. open" -> <<"open", "float">>
          [] key = "2. high" -> <<"high", "float">>
          [] key = "3. low" -> <<"low", "float">>
          [] key = "4. close" -> <<"close", "float">>
          [] key = "5. adjusted close" -> <<"aclose", "float">>
          [] key = "6. volume" -> <<"volume", "int">>
          [] key = "7. dividend amount" -> <<"dividend", "float">>
          [] key = "8. split coefficient" -> <<"splitc", "int">>]

\* a row of the data block: raw field key -> JSON string
Row(o, h, l, c, ac, v, d, s) ==
    [key \in RawKeys |->
        CASE key = "1. open" -> NumStr(o)
          [] key = "2. high" -> NumStr(h)
          [] key = "3. low" -> NumStr(l)
          [] key = "4. close" -> NumStr(c)
          [] key = "5. adjusted close" -> NumStr(ac)
          [] key = "6. volume" -> NumStr(v)
          [] key = "7. dividend amount" -> NumStr(d)
          [] key = "8. split coefficient" -> NumStr(s)]

\* two rows of the expected shape (volume "2500.5" is numeric but not integral)
RowA == Row(10000, 11000, 9500, 10500, 10400, 100000, 0, 100)
RowB == Row(10150, 12050, 10000, 11025, 11000, 250050, 163, 100)
WellFormedRows == {RowA, RowB}

\* f without key k
Without(f, k) == [x \in DOMAIN f \ {k} |-> f[x]]
\* f with key k bound to v
With(f, k, v) == [x \in DOMAIN f \cup {k} |-> IF x = k THEN v ELSE f[x]]

\* rows that depart from the expected shape, each in one way
RowExtra == With(RowA, "9. extra", NumStr(700))
RowRenamed == With(Without(RowA, "1. open"), "1. abierto", NumStr(10000))
RowBadFloat == With(RowA, "4. close", BadStr)
RowBadInt == With(RowA, "6. volume", BadStr)
RowNoFloat == Without(RowA, "1. open")
RowNoInt == Without(RowA, "6. volume")
DefectiveRows == {RowExtra, RowRenamed, RowBadFloat, RowBadInt, RowNoFloat, RowNoInt}

\* "YYYY-MM-DD" keys of the data block
DateStr(y, m, d) == [y |-> y, m |-> m, d |-> d]
DateStrings == {DateStr(2020, 1, 10), DateStr(2020, 1, 20), DateStr(2020, 5, 5),
                DateStr(2022, 2, 1)}

\* a data block is JSON null or a JSON object: date string -> row, in file order
NullBlock == [type |-> "null", items |-> <<>>]
Block(items) == [type |-> "object", items |-> items]
Item(ds, row) == [date |-> ds, row |-> row]

\* the objects with at most n dates (distinct keys), at most one defective row
ObjectBlocks(dates, n) ==
    {Block(q) :
        q \in {q \in SeqsUpTo({Item(ds, row) : ds \in dates,
                                               row \in WellFormedRows \cup DefectiveRows}, n) :
                 /\ \A a, b \in DOMAIN q : a # b => q[a].date # q[b].date
                 /\ Cardinality({a \in DOMAIN q : q[a].row \in DefectiveRows}) <= 1}}

\* data blocks of the table specification: every shape, every order of the dates
TableBlocks == {NullBlock} \cup ObjectBlocks(DateStrings, MaxRows)

\* data blocks of the client specification: one date, a few shapes
ClientBlocks ==
    {NullBlock} \cup
    {Block(<<Item(DateStr(2020, 1, 10), row)>>) : row \in {RowA, RowB, RowBadFloat}}

---------------------------------------------------------------------------
(* pandas: the calls _build_data_frame makes *)

\* a cell of a frame: a number or NaN
Num(n) == [na |-> FALSE, v |-> n]
NaN == [na |-> TRUE, v |-> 0]

Returned(value) == [raised |-> "", value |-> value]
Raised(kind) == [raised |-> kind, value |-> [columns |-> {}, rows |-> <<>>]]

\* pd.DataFrame.from_dict(data, orient='index', dtype=float): one row per key of
\* data, one column per field key met in any row, NaN where a row lacks the
\* field.  len(None) raises TypeError; a string that is no number raises
\* ValueError.
from_dict(data) ==
    IF data.type # "object" THEN Raised("TypeError")
    ELSE LET items == data.items
             columns == UNION {DOMAIN items[k].row : k \in DOMAIN items}
         IN IF \E k \in DOMAIN items : \E c \in DOMAIN items[k].row :
                   items[k].row[c].t # "num"
            THEN Raised("ValueError")
            ELSE Returned([columns |-> columns,
                           rows |-> [k \in DOMAIN items |->
                               [label |-> items[k].date,
                                cells |-> [c \in columns |->
                                    IF c \in DOMAIN items[k].row
                                    THEN Num(items[k].row[c].c)
                                    ELSE NaN]]]])

\* the new label of a column under DataFrame.rename(columns=mapper): labels the
\* mapper does not hold are left as they are (errors='ignore')
renamed_label(c) ==
    IF c \in DOMAIN data_field2name_type THEN data_field2name_type[c][1] ELSE c

\* data_frame.rename(columns={key: name_type[0] ...}); never raises
rename(frame) ==
    LET old(n) == CHOOSE c \in frame.columns : renamed_label(c) = n
        columns == {renamed_label(c) : c \in frame.columns}
    IN Returned([columns |-> columns,
                 rows |-> [k \in DOMAIN frame.rows |->
                     [label |-> frame.rows[k].label,
                      cells |-> [n \in columns |-> frame.rows[k].cells[old(n)]]]]])

\* the dtype argument of astype: canonical name -> type
dtype_of == [n \in {data_field2name_type[key][1] : key \in RawKeys} |->
                data_field2name_type[CHOOSE key \in RawKeys :
                                        data_field2name_type[key][1] = n][2]]

\* one cell cast to a type: float keeps the value (hundredths), int truncates
\* it to whole units
cast(cell, type) ==
    IF type = "int" THEN Num(cell.v \div 100) ELSE cell

\* data_frame.astype(dtype={name: type ...}): KeyError when a name is no column
\* of the frame, ValueError when NaN is cast to int; columns the dtype does
\* not name are left as they are
astype(frame) ==
    IF \E n \in DOMAIN dtype_of : n \notin frame.columns THEN Raised("KeyError")
    ELSE IF \E k \in DOMAIN frame.rows : \E n \in DOMAIN dtype_of :
                dtype_of[n] = "int" /\ frame.rows[k].cells[n].na
    THEN Raised("ValueError")
    ELSE Returned([columns |-> frame.columns,
                   rows |-> [k \in DOMAIN frame.rows |->
                       [label |-> frame.rows[k].label,
                        cells |-> [n \in frame.columns |->
                            IF n \in DOMAIN dtype_of
                            THEN cast(frame.rows[k].cells[n], dtype_of[n])
                            ELSE frame.rows[k].cells[n]]]]])

\* a calendar day as a point in time: days on a calendar of 31-day months
date(y, m, d) == (y * 12 + (m - 1)) * 31 + (d - 1)

\* a "YYYY-MM-DD" string as a timestamp
to_datetime(ds) == date(ds.y, ds.m, ds.d)

\* data_frame.index.astype("datetime64[ns]")
index_astype(frame) ==
    [columns |-> frame.columns,
     rows |-> [k \in DOMAIN frame.rows |->
                  [label |-> to_datetime(frame.rows[k].label),
                   cells |-> frame.rows[k].cells]]]

RECURSIVE sorted_rows(_)
\* rows in ascending order of label (selection of the least label first)
sorted_rows(rows) ==
    IF rows = <<>> THEN <<>>
    ELSE LET least == CHOOSE k \in DOMAIN rows :
                          \A j \in DOMAIN rows :
                              rows[k].label < rows[j].label
                              \/ (rows[k].label = rows[j].label /\ k <= j)
             rest == [j \in 1..(Len(rows) - 1) |->
                         IF j < least THEN rows[j] ELSE rows[j + 1]]
         IN <<rows[least]>> \o sorted_rows(rest)

\* sort_index leaving the rows in the order of the data block
sort_index_none(frame) == frame

\* data_frame.sort_index(ascending=True)
sort_index(frame) == [columns |-> frame.columns, rows |-> sorted_rows(frame.rows)]

\* what an except clause for `caught` makes of a raised exception: the
\* FinanceClientInvalidData of the handler, or the exception itself, which
\* then leaves the constructor as it is
handled(raised, caught, text) ==
    IF raised = caught THEN Raise("FinanceClientInvalidData", text, "_build_data_frame")
    ELSE Raise(raised, "", "_build_data_frame")

\* one pass of the loop of _build_data_frame on one data block
build_table(data) ==
    LET a == from_dict(data)
    IN IF a.raised # ""
       THEN [error |-> handled(a.raised, "TypeError", "Data json not specified"),
             frame |-> a.value]
       ELSE LET b == rename(a.value)
            IN IF b.raised # ""
               THEN [error |-> handled(b.raised, "KeyError", "Not found in axis"),
                     frame |-> b.value]
               ELSE LET c == astype(b.value)
                    IN IF c.raised # ""
                       THEN [error |-> handled(c.raised, "TypeError",
                                               "Data type not understood"),
                             frame |-> c.value]
                       ELSE [error |-> NoError,
                             frame |-> sort_index(index_astype(c.value))]

---------------------------------------------------------------------------
(* The transport and the JSON bodies it returns *)

_FinanceBaseQueryURL == "https://www.alphavantage.co/query?"

build_base_query_url == _FinanceBaseQueryURL

\* build_base_query_url_params reading the last ticker of the list, as the
\* log line of _validate_query_data does
build_base_query_url_params_last(t, key) ==
    "function=TIME_SERIES_DAILY_ADJUSTED&symbol=" \o ticker[Len(ticker)]
        \o "&outputsize=full&apikey=" \o key

build_base_query_url_params(t, key) ==
    "function=TIME_SERIES_DAILY_ADJUSTED&symbol=" \o t \o "&outputsize=full&apikey=" \o key

build_query_metadata_key == "Meta Data"

build_query_data_key == "Time Series (Daily)"

\* metadata blocks: an object with or without "2. Symbol", or no object at all
MetaObject(members) == [type |-> "object", members |-> members]
MetaWith(symbol) ==
    MetaObject([k \in {"1. Information", "2. Symbol"} |->
                   IF k = "2. Symbol" THEN symbol ELSE "Daily Time Series"])
MetaWithout == MetaObject([k \in {"1. Information"} |-> "Daily Time Series"])
MetaString == [type |-> "str", members |-> <<>>]
Metas == {MetaWith(t) : t \in Tickers} \cup {MetaWithout, MetaString}

\* response bodies: text that is no JSON, a JSON list, a JSON object
Unparsable == [type |-> "unparsable", members |-> <<>>]
JsonList == [type |-> "list", members |-> <<>>]
JsonObject(members) == [type |-> "object", members |-> members]
ErrorBody ==
    JsonObject([k \in {"Error Message"} |-> [type |-> "str", members |-> <<>>]])
OnlyMeta == JsonObject([k \in {"Meta Data"} |-> MetaWithout])
OnlyData(block) == JsonObject([k \in {"Time Series (Daily)"} |-> block])
Both(meta, block) ==
    JsonObject([k \in {"Meta Data", "Time Series (Daily)"} |->
                   IF k = "Meta Data" THEN meta ELSE block])

Bodies(blocks) ==
    {Unparsable, JsonList, ErrorBody, OnlyMeta, OnlyData(NullBlock)}
    \cup {Both(meta, block) : meta \in Metas, block \in blocks}

\* what requests.get(url) does: it raises, or returns a response
TransportOutcomes(blocks) ==
    {[raised |-> TRUE, status_code |-> 0, body |-> Unparsable],
     [raised |-> FALSE, status_code |-> 404, body |-> ErrorBody]}
    \cup {[raised |-> FALSE, status_code |-> 200, body |-> b] : b \in Bodies(blocks)}

---------------------------------------------------------------------------
(* The constructor *)

Init ==
    /\ ticker \in TickerLists
    /\ api_key \in KeyArgs
    /\ env_key \in EnvKeys
    /\ pc = "init"
    /\ i = 1
    /\ response = NoResponse
    /\ json_metadata = <<>>
    /\ json_data = <<>>
    /\ data_frame = <<>>
    /\ calls = <<>>
    /\ error = NoError
    /\ result = NoResult
    /\ ties = {}
    /\ files = NoFiles

\* after_pass going from the last pass to the finished client, no table built
after_pass_no_build(n) ==
    IF n < Len(ticker) THEN "query" ELSE "ready"

\* the position after the per-ticker loop of FinanceClient.__init__ has run
\* n of its passes: the next pass, or _build_data_frame's loop, or the end
after_pass(n) ==
    IF n < Len(ticker) THEN "query"
    ELSE IF Len(ticker) > 0 THEN "build" ELSE "ready"

\* the key FinanceClient.__init__ settles on
configured_key(key, env) == IF ~Truthy(key) THEN env ELSE key

\* invalid_key without the isinstance check
invalid_key_any_type(key) == ~Truthy(key)

\* whether the configured key is refused
invalid_key(key) == ~Truthy(key) \/ key.type # "str"

\* FinanceClient.__init__ up to the per-ticker loop
APIKeyConfiguration ==
    /\ pc = "init"
    /\ api_key' = configured_key(api_key, env_key)
    /\ IF invalid_key(api_key')
       THEN /\ error' = Raise("FinanceClientInvalidAPIKey",
                              "TimeSeriesFinanceClient operation failed", "__init__")
            /\ pc' = "failed"
       ELSE /\ error' = error
            /\ pc' = after_pass(0)
    /\ data_frame' = <<>>
    /\ UNCHANGED <<ties, files, ticker, env_key, i, response, json_metadata, json_data,
                   calls, result>>

\* the exception _query_api ends with when its try block raised: the handler
\* formats response.url and response.status_code, and `response` is bound only
\* when requests.get returned
query_api_error(out, url) ==
    IF out.raised THEN Raise("UnboundLocalError", "", "_query_api")
    ELSE [kind |-> "FinanceClientAPIError", text |-> "Unsuccessful API access",
          url |-> url, status |-> out.status_code, where |-> "_query_api"]

\* _query_api(t) for the ticker of this pass
QueryApi(blocks) ==
    /\ pc = "query"
    /\ LET url == build_base_query_url \o build_base_query_url_params(ticker[i], api_key.val)
       IN \E out \in TransportOutcomes(blocks) :
            /\ calls' = Append(calls, url)
            /\ IF out.raised \/ out.status_code # 200
               THEN /\ error' = query_api_error(out, url)
                    /\ pc' = "failed"
                    /\ response' = response
               ELSE /\ response' = [raised |-> FALSE, url |-> url,
                                    status_code |-> out.status_code, body |-> out.body]
                    /\ pc' = "process"
                    /\ error' = error
    /\ UNCHANGED <<ties, files, ticker, api_key, env_key, i, json_metadata, json_data,
                   data_frame, result>>

\* process_raises of a validator that also wants the blocks to be objects
process_raises_checks_shape(body) ==
    \/ body.type # "object"
    \/ build_query_metadata_key \notin DOMAIN body.members
    \/ build_query_data_key \notin DOMAIN body.members
    \/ body.members[build_query_metadata_key].type # "object"
    \/ body.members[build_query_data_key].type # "object"

\* whether the try block of _process_query_response raises: response.json()
\* fails, or the body cannot be indexed by a string, or a key is missing
process_raises(body) ==
    \/ body.type # "object"
    \/ build_query_metadata_key \notin DOMAIN body.members
    \/ build_query_data_key \notin DOMAIN body.members

\* ProcessQueryResponse logging the exception and going on to the next pass
ProcessQueryResponseGoesOn ==
    /\ pc = "process"
    /\ IF process_raises(response.body)
       THEN /\ error' = Raise("FinanceClientInvalidData", "Invalid data",
                              "_process_query_response")
            /\ pc' = after_pass(i)
            /\ i' = IF i < Len(ticker) THEN i + 1 ELSE 1
            /\ UNCHANGED <<json_metadata, json_data>>
       ELSE /\ json_metadata' = Append(json_metadata,
                                       response.body.members[build_query_metadata_key])
            /\ json_data' = Append(json_data,
                                   response.body.members[build_query_data_key])
            /\ pc' = "validate"
            /\ UNCHANGED <<i, error>>
    /\ UNCHANGED <<ties, files, ticker, api_key, env_key, response, data_frame, calls, result>>

\* _process_query_response(response)
ProcessQueryResponse ==
    /\ pc = "process"
    /\ IF process_raises(response.body)
       THEN /\ error' = Raise("FinanceClientInvalidData", "Invalid data",
                              "_process_query_response")
            /\ pc' = "failed"
            /\ UNCHANGED <<json_metadata, json_data>>
       ELSE /\ json_metadata' = Append(json_metadata,
                                       response.body.members[build_query_metadata_key])
            /\ json_data' = Append(json_data,
                                   response.body.members[build_query_data_key])
            /\ pc' = "validate"
            /\ error' = error
    /\ UNCHANGED <<ties, files, ticker, api_key, env_key, i, response, data_frame, calls, result>>

\* symbol_matches comparing with the last ticker of the list, as the log line
\* of _validate_query_data does
symbol_matches_last(metadata, t) ==
    /\ metadata.type = "object"
    /\ "2. Symbol" \in DOMAIN metadata.members
    /\ metadata.members["2. Symbol"] = ticker[Len(ticker)]

\* whether the assert of _validate_query_data holds without raising
symbol_matches(metadata, t) ==
    /\ metadata.type = "object"
    /\ "2. Symbol" \in DOMAIN metadata.members
    /\ metadata.members["2. Symbol"] = t

\* _validate_query_data(t), then the end of the pass; after the last pass
\* FinanceClient.__init__ sets self._data_frame = []
ValidateQueryData ==
    /\ pc = "validate"
    /\ IF symbol_matches(json_metadata[Len(json_metadata)], ticker[i])
       THEN /\ pc' = after_pass(i)
            /\ i' = IF i < Len(ticker) THEN i + 1 ELSE 1
            /\ response' = NoResponse
            /\ error' = error
       ELSE /\ error' = Raise("FinanceClientInvalidData",
                              "Metadata field '2. Symbol' not found",
                              "_validate_query_data")
            /\ pc' = "failed"
            /\ UNCHANGED <<i, response>>
    /\ data_frame' = <<>>
    /\ UNCHANGED <<ties, files, ticker, api_key, env_key, json_metadata, json_data, calls, result>>

\* BuildDataFrame logging the exception of a pass and going on to the next
BuildDataFrameSkips ==
    /\ pc = "build"
    /\ LET built == build_table(json_data[i])
       IN /\ data_frame' = IF built.error.kind # "" THEN data_frame
                           ELSE Append(data_frame, built.frame)
          /\ pc' = IF i < Len(ticker) THEN "build" ELSE "ready"
          /\ i' = IF i < Len(ticker) THEN i + 1 ELSE i
    /\ UNCHANGED <<ties, files, ticker, api_key, env_key, response, json_metadata, json_data,
                   calls, error, result>>

\* BuildDataFrame building every table from the first data block
BuildDataFrameFirstBlock ==
    /\ pc = "build"
    /\ LET built == build_table(json_data[1])
       IN IF built.error.kind # ""
          THEN /\ error' = built.error
               /\ pc' = "failed"
               /\ UNCHANGED <<i, data_frame>>
          ELSE /\ data_frame' = Append(data_frame, built.frame)
               /\ pc' = IF i < Len(ticker) THEN "build" ELSE "ready"
               /\ i' = IF i < Len(ticker) THEN i + 1 ELSE i
               /\ error' = error
    /\ UNCHANGED <<ties, files, ticker, api_key, env_key, response, json_metadata, json_data,
                   calls, result>>

\* one pass of the loop of _build_data_frame
BuildDataFrame ==
    /\ pc = "build"
    /\ LET built == build_table(json_data[i])
       IN IF built.error.kind # ""
          THEN /\ error' = built.error
               /\ pc' = "failed"
               /\ UNCHANGED <<i, data_frame>>
          ELSE /\ data_frame' = Append(data_frame, built.frame)
               /\ pc' = IF i < Len(ticker) THEN "build" ELSE "ready"
               /\ i' = IF i < Len(ticker) THEN i + 1 ELSE i
               /\ error' = error
    /\ UNCHANGED <<ties, files, ticker, api_key, env_key, response, json_metadata, json_data,
                   calls, result>>

---------------------------------------------------------------------------
(* The queries of TimeSeriesFinanceClient *)

\* datetime.date arguments of daily_price and daily_volume
DateArgs == {date(2020, 1, 10), date(2020, 1, 15), date(2022, 2, 1)}

\* int arguments of yearly_dividends and yearly_dividends_per_quarter
YearArgs == {2019, 2020, 2022}

\* an int argument of yearly_dividends whose text is shorter than a year label
ShortYearArgs == {999}

OptionalArgs(S) == {NoArg} \cup {Arg(v) : v \in S}

\* the value of `from is not None and to is not None`
both_given(from, to) == from.given /\ to.given

\* whether `assert from <= to` raises
assert_raises(from, to) == ~(from.v <= to.v)

\* the passes of a query's loop over self._data_frame that raise
\* FinanceClientParamError: a pass checks the range when both bounds are given
raising_passes(from, to) ==
    {k \in DOMAIN data_frame : both_given(from, to) /\ assert_raises(from, to)}

\* df[column] as a series of (label, value)
column_of(frame, column) ==
    [k \in DOMAIN frame.rows |->
        [label |-> frame.rows[k].label, value |-> frame.rows[k].cells[column]]]

\* loc leaving out the upper end
loc_half_open(series, lo, hi) ==
    SelectSeq(series, LAMBDA e : lo <= e.label /\ e.label < hi)

\* series.loc[lo:hi] on a sorted index of timestamps: both ends inclusive
loc(series, lo, hi) ==
    SelectSeq(series, LAMBDA e : lo <= e.label /\ e.label <= hi)

\* daily_series filtering on a single bound too
daily_series_one_bound(frame, column, from, to) ==
    IF from.given \/ to.given
    THEN SelectSeq(column_of(frame, column),
                   LAMBDA e : /\ from.given => from.v <= e.label
                              /\ to.given => e.label <= to.v)
    ELSE column_of(frame, column)

\* the series a pass of daily_price / daily_volume appends
daily_series(frame, column, from, to) ==
    IF both_given(from, to)
    THEN loc(column_of(frame, column), from.v, to.v)
    ELSE column_of(frame, column)

\* what a query returns or raises, given the series its passes append: the
\* loop stops at its first raising pass
outcome(op, from, to, ser) ==
    IF raising_passes(from, to) # {}
    THEN [op |-> op, from |-> from, to |-> to, path |-> "",
          raised |-> "FinanceClientParamError", text |-> "", out |-> <<>>]
    ELSE [op |-> op, from |-> from, to |-> to, path |-> "",
          raised |-> "", text |-> "", out |-> ser]

\* daily_price(from_date, to_date)
DailyPrice ==
    /\ pc = "ready"
    /\ \E from \in OptionalArgs(DateArgs), to \in OptionalArgs(DateArgs) :
         result' = outcome("daily_price", from, to,
                           [k \in DOMAIN data_frame |->
                               daily_series(data_frame[k], "close", from, to)])
    /\ UNCHANGED <<ties, files, ticker, api_key, env_key, pc, i, response, json_metadata,
                   json_data, data_frame, calls, error>>

\* daily_volume(from_date, to_date)
DailyVolume ==
    /\ pc = "ready"
    /\ \E from \in OptionalArgs(DateArgs), to \in OptionalArgs(DateArgs) :
         result' = outcome("daily_volume", from, to,
                           [k \in DOMAIN data_frame |->
                               daily_series(data_frame[k], "volume", from, to)])
    /\ UNCHANGED <<ties, files, ticker, api_key, env_key, pc, i, response, json_metadata,
                   json_data, data_frame, calls, error>>

year_of(ts) == ts \div (12 * 31)
quarter_of(ts) == ts \div (3 * 31)

RECURSIVE str(_)
\* str(n) and strftime('%Y'): the decimal digits of n, first digit first
str(n) == IF n < 10 THEN <<n>> ELSE Append(str(n \div 10), n % 10)

RECURSIVE int(_)
\* the number a string of digits spells
int(digits) ==
    IF digits = <<>> THEN 0
    ELSE 10 * int(SubSeq(digits, 1, Len(digits) - 1)) + digits[Len(digits)]

RECURSIVE str_le(_, _)
\* a <= b on strings: the order of the first differing character, a prefix first
str_le(a, b) ==
    IF a = <<>> THEN TRUE
    ELSE IF b = <<>> THEN FALSE
    ELSE IF a[1] # b[1] THEN a[1] < b[1]
    ELSE str_le(Tail(a), Tail(b))

RECURSIVE sum(_)
\* Series.sum(): NaN is skipped
sum(values) ==
    IF values = <<>> THEN 0
    ELSE (IF values[1].na THEN 0 ELSE values[1].v) + sum(Tail(values))

\* the period (year or quarter) a timestamp falls in
period_of(ts, freq) == IF freq = "1YS" THEN year_of(ts) ELSE quarter_of(ts)

\* the first day of a quarter
quarter_start(q) == q * 3 * 31

\* the label of a bin: the year as '%Y' text, or the first day of the quarter
label_of(p, freq) == IF freq = "1YS" THEN str(p) ELSE quarter_start(p)

\* binned_sums without the bins that hold no row
binned_sums_occupied(series, freq) ==
    IF series = <<>> THEN <<>>
    ELSE LET first == period_of(series[1].label, freq)
             last == period_of(series[Len(series)].label, freq)
             in_bin(p) == SelectSeq(series, LAMBDA e : period_of(e.label, freq) = p)
             occupied == SelectSeq([k \in 1..(last - first + 1) |-> first + k - 1],
                                   LAMBDA p : in_bin(p) # <<>>)
         IN [k \in DOMAIN occupied |->
                [label |-> label_of(occupied[k], freq),
                 value |-> Num(sum([j \in DOMAIN in_bin(occupied[k]) |->
                                       in_bin(occupied[k])[j].value]))]]

\* series.groupby(pd.Grouper(level=0, freq='1YS')).sum() with its index as
\* strftime('%Y'), and series.resample('QS').sum(): one bin per period from
\* the first row's to the last row's, empty bins included
binned_sums(series, freq) ==
    IF series = <<>> THEN <<>>
    ELSE LET first == period_of(series[1].label, freq)
             last == period_of(series[Len(series)].label, freq)
             in_bin(p) == SelectSeq(series, LAMBDA e : period_of(e.label, freq) = p)
         IN [k \in 1..(last - first + 1) |->
                [label |-> label_of(first + k - 1, freq),
                 value |-> Num(sum([j \in DOMAIN in_bin(first + k - 1) |->
                                       in_bin(first + k - 1)[j].value]))]]

\* series.loc[lo:hi] on a sorted index of strings: both ends inclusive
loc_str(series, lo, hi) ==
    SelectSeq(series, LAMBDA e : str_le(lo, e.label) /\ str_le(e.label, hi))

\* the series a pass of yearly_dividends appends
yearly_series(frame, from, to) ==
    LET series == binned_sums(column_of(frame, "dividend"), "1YS")
    IN IF both_given(from, to) THEN loc_str(series, str(from.v), str(to.v))
       ELSE series

\* yearly_dividends(from_year, to_year)
YearlyDividends ==
    /\ pc = "ready"
    /\ \E from \in OptionalArgs(YearArgs \cup ShortYearArgs),
          to \in OptionalArgs(YearArgs \cup ShortYearArgs) :
         result' = outcome("yearly_dividends", from, to,
                           [k \in DOMAIN data_frame |->
                               yearly_series(data_frame[k], from, to)])
    /\ UNCHANGED <<ties, files, ticker, api_key, env_key, pc, i, response, json_metadata,
                   json_data, data_frame, calls, error>>

\* series.loc['YYYY':'YYYY'] on a sorted index of timestamps: from the first
\* day of the year lo spells to the last day of the year hi spells
loc_years(series, lo, hi) ==
    loc(series, date(int(lo), 1, 1), date(int(hi), 12, 31))

\* the series a pass of yearly_dividends_per_quarter appends
quarterly_series(frame, from, to) ==
    LET series == binned_sums(column_of(frame, "dividend"), "QS")
    IN IF both_given(from, to) THEN loc_years(series, str(from.v), str(to.v))
       ELSE series

\* yearly_dividends_per_quarter(from_year, to_year)
YearlyDividendsPerQuarter ==
    /\ pc = "ready"
    /\ \E from \in OptionalArgs(YearArgs), to \in OptionalArgs(YearArgs) :
         result' = outcome("yearly_dividends_per_quarter", from, to,
                           [k \in DOMAIN data_frame |->
                               quarterly_series(data_frame[k], from, to)])
    /\ UNCHANGED <<ties, files, ticker, api_key, env_key, pc, i, response, json_metadata,
                   json_data, data_frame, calls, error>>

Query ==
    \/ DailyPrice
    \/ DailyVolume
    \/ YearlyDividends
    \/ YearlyDividendsPerQuarter

\* the text of a timestamp: its calendar day
isoformat(ts) ==
    [y |-> ts \div (12 * 31), m |-> ((ts % (12 * 31)) \div 31) + 1, d |-> (ts % 31) + 1]

\* a sort key: a ratio of hundredths, or NaN
Key(num, den) == [na |-> FALSE, num |-> num, den |-> den]
NoKey == [na |-> TRUE, num |-> 0, den |-> 1]

\* a <= b on keys that are numbers
key_le(a, b) == a.num * b.den <= b.num * a.den

\* the positions of the rows whose key is the least
minima(keys) ==
    SelectSeq([k \in DOMAIN keys |-> k],
              LAMBDA k : /\ ~keys[k].na
                         /\ \A j \in DOMAIN keys : keys[j].na \/ key_le(keys[k], keys[j]))

\* the positions, in ascending order, of the rows whose key is the greatest
\* of the keys that are numbers
maxima(keys) ==
    SelectSeq([k \in DOMAIN keys |-> k],
              LAMBDA k : /\ ~keys[k].na
                         /\ \A j \in DOMAIN keys : keys[j].na \/ key_le(keys[j], keys[k]))

\* the number of rows that may come first in sort_values(key, ascending=False):
\* the rows of greatest key; NaN keys come last, in the order of the table
heads(keys) == IF maxima(keys) = <<>> THEN 1 ELSE Len(maxima(keys))

\* the position of the row .sort_values(key, ascending=False).head(1) keeps,
\* 0 on a table without rows.  The sort is numpy's quicksort, which leaves
\* the order of rows of equal key open: pick says which of them comes first.
sort_values_head(keys, pick) ==
    IF keys = <<>> THEN 0
    ELSE IF maxima(keys) = <<>> THEN 1
    ELSE maxima(keys)[pick]

\* how sort_values is known to order the rows of equal key of table k in
\* method op: the same table sorts the same way every time
known_picks(op, k) == {r.pick : r \in {r \in ties : r.op = op /\ r.k = k}}

\* the orders of equal keys sort_values may show on the tables of op, given
\* the key column of each table: one pick per table
picks_of(op, keys) ==
    {picks \in [DOMAIN keys -> 1..MaxRows] :
        \A k \in DOMAIN keys :
            /\ picks[k] <= heads(keys[k])
            /\ known_picks(op, k) \subseteq {picks[k]}}

\* ties once the orders shown by picks have been seen
seen(op, keys, picks) ==
    ties \cup {[op |-> op, k |-> k, pick |-> picks[k]] :
                  k \in {k \in DOMAIN keys : heads(keys[k]) > 1}}

\* what a method without range returns or raises: values[0] of a table
\* without rows raises IndexError
returned(op, empty, out) ==
    IF empty
    THEN [op |-> op, from |-> NoArg, to |-> NoArg, path |-> "",
          raised |-> "IndexError", text |-> "", out |-> <<>>]
    ELSE [op |-> op, from |-> NoArg, to |-> NoArg, path |-> "",
          raised |-> "", text |-> "", out |-> out]

\* series['high-low'] = series['high'] - series['low'], as sort keys
high_low(frame) ==
    [k \in DOMAIN frame.rows |->
        IF frame.rows[k].cells["high"].na \/ frame.rows[k].cells["low"].na
        THEN NoKey
        ELSE Key(frame.rows[k].cells["high"].v - frame.rows[k].cells["low"].v, 1)]

\* the tuple a pass of highest_daily_variation appends
daily_tuple(frame, pick) ==
    LET k == sort_values_head(high_low(frame), pick)
    IN [label |-> to_datetime(isoformat(frame.rows[k].label)),
        high |-> frame.rows[k].cells["high"],
        low |-> frame.rows[k].cells["low"],
        value |-> high_low(frame)[k]]

\* highest_daily_variation() adding the 'high-low' column to the tables
\* themselves instead of to a copy
HighestDailyVariationInPlace ==
    /\ pc = "ready"
    /\ LET keys == [k \in DOMAIN data_frame |-> high_low(data_frame[k])]
       IN \E picks \in picks_of("highest_daily_variation", keys) :
            /\ result' = returned("highest_daily_variation",
                                  \E k \in DOMAIN keys : keys[k] = <<>>,
                                  [k \in DOMAIN data_frame |->
                                      daily_tuple(data_frame[k], picks[k])])
            /\ ties' = seen("highest_daily_variation", keys, picks)
            /\ data_frame' =
                  [k \in DOMAIN data_frame |->
                      [columns |-> data_frame[k].columns \cup {"high-low"},
                       rows |-> [j \in DOMAIN data_frame[k].rows |->
                          [label |-> data_frame[k].rows[j].label,
                           cells |-> [c \in data_frame[k].columns \cup {"high-low"} |->
                              IF c = "high-low"
                              THEN Num(keys[k][j].num)
                              ELSE data_frame[k].rows[j].cells[c]]]]]]
    /\ UNCHANGED <<files, ticker, api_key, env_key, pc, i, response, json_metadata,
                   json_data, calls, error>>

\* highest_daily_variation()
HighestDailyVariation ==
    /\ pc = "ready"
    /\ LET keys == [k \in DOMAIN data_frame |-> high_low(data_frame[k])]
       IN \E picks \in picks_of("highest_daily_variation", keys) :
            /\ result' = returned("highest_daily_variation",
                                  \E k \in DOMAIN keys : keys[k] = <<>>,
                                  [k \in DOMAIN data_frame |->
                                      daily_tuple(data_frame[k], picks[k])])
            /\ ties' = seen("highest_daily_variation", keys, picks)
    /\ UNCHANGED <<files, ticker, api_key, env_key, pc, i, response, json_metadata,
                   json_data, data_frame, calls, error>>

month_of(ts) == ts \div 31

\* the first day of a month
month_start(mo) == mo * 31

\* monthly_means with the sum of a month in place of its mean
monthly_sums(frame) ==
    IF frame.rows = <<>> THEN <<>>
    ELSE LET series == high_low(frame)
             first == month_of(frame.rows[1].label)
             last == month_of(frame.rows[Len(frame.rows)].label)
             in_bin(mo) == SelectSeq([k \in DOMAIN series |-> k],
                                     LAMBDA k : /\ month_of(frame.rows[k].label) = mo
                                                /\ ~series[k].na)
             total(mo) == sum([j \in DOMAIN in_bin(mo) |->
                                  Num(series[in_bin(mo)[j]].num)])
         IN [k \in 1..(last - first + 1) |->
                [label |-> month_start(first + k - 1),
                 value |-> IF in_bin(first + k - 1) = <<>> THEN NoKey
                           ELSE Key(total(first + k - 1), 1)]]

\* series.groupby(pd.Grouper(level=0, freq='MS')).mean(): one bin per month
\* from the first row's to the last row's, labelled by its first day; the
\* mean of 'mean-variation' is NaN in a month without rows
monthly_means(frame) ==
    IF frame.rows = <<>> THEN <<>>
    ELSE LET series == high_low(frame)
             first == month_of(frame.rows[1].label)
             last == month_of(frame.rows[Len(frame.rows)].label)
             in_bin(mo) == SelectSeq([k \in DOMAIN series |-> k],
                                     LAMBDA k : /\ month_of(frame.rows[k].label) = mo
                                                /\ ~series[k].na)
             total(mo) == sum([j \in DOMAIN in_bin(mo) |->
                                  Num(series[in_bin(mo)[j]].num)])
         IN [k \in 1..(last - first + 1) |->
                [label |-> month_start(first + k - 1),
                 value |-> IF in_bin(first + k - 1) = <<>> THEN NoKey
                           ELSE Key(total(first + k - 1), Len(in_bin(first + k - 1)))]]

\* the 'mean-variation' column of the monthly means, as sort keys
mean_variation(frame) ==
    [k \in DOMAIN monthly_means(frame) |-> monthly_means(frame)[k].value]

\* the tuple a pass of highest_monthly_mean_variation appends
monthly_tuple(frame, pick) ==
    LET k == sort_values_head(mean_variation(frame), pick)
    IN [label |-> monthly_means(frame)[k].label,
        value |-> monthly_means(frame)[k].value]

\* highest_monthly_mean_variation()
HighestMonthlyMeanVariation ==
    /\ pc = "ready"
    /\ LET keys == [k \in DOMAIN data_frame |-> mean_variation(data_frame[k])]
       IN \E picks \in picks_of("highest_monthly_mean_variation", keys) :
            /\ result' = returned("highest_monthly_mean_variation",
                                  \E k \in DOMAIN keys : keys[k] = <<>>,
                                  [k \in DOMAIN data_frame |->
                                      monthly_tuple(data_frame[k], picks[k])])
            /\ ties' = seen("highest_monthly_mean_variation", keys, picks)
    /\ UNCHANGED <<files, ticker, api_key, env_key, pc, i, response, json_metadata,
                   json_data, data_frame, calls, error>>

Extremal ==
    \/ HighestDailyVariation
    \/ HighestMonthlyMeanVariation

\* to_pandas(): the list of tables itself
ToPandas ==
    /\ pc = "ready"
    /\ result' = returned("to_pandas", FALSE, data_frame)
    /\ UNCHANGED <<ties, files, ticker, api_key, env_key, pc, i, response,
                   json_metadata, json_data, data_frame, calls, error>>

\* the text of a number: the digits before the point and, for a float, those
\* after it (repr of a float of two decimals: 105.0, 110.25, 100.05); the
\* text of NaN is empty
NoText == [whole |-> <<>>, frac |-> <<>>]
text_of(cell, type) ==
    IF cell.na THEN NoText
    ELSE IF type = "int" THEN [whole |-> str(cell.v), frac |-> <<>>]
    ELSE [whole |-> str(cell.v \div 100),
          frac |-> IF cell.v % 10 = 0 THEN <<(cell.v % 100) \div 10>>
                   ELSE <<(cell.v % 100) \div 10, cell.v % 10>>]

\* DataFrame.to_csv(path2file): a header of the column names, then one line
\* per row: the day of its timestamp, then the text of each cell
to_csv(frame) ==
    [exists |-> TRUE,
     header |-> frame.columns,
     lines |-> [k \in DOMAIN frame.rows |->
                  [label |-> isoformat(frame.rows[k].label),
                   fields |-> [c \in frame.columns |->
                       text_of(frame.rows[k].cells[c],
                               IF c \in DOMAIN dtype_of THEN dtype_of[c] ELSE "float")]]]]

\* whether opening the file for writing raises an OSError
open_raises(path) == path = "nodir/test.csv"

\* to_csv(path2file): writes self._data_frame[0]; IOError and PermissionError
\* become FinanceClientIOError, the IndexError of an empty list is not caught
ToCsv ==
    /\ pc = "ready"
    /\ \E path \in Paths :
         IF data_frame = <<>>
         THEN /\ result' = [op |-> "to_csv", from |-> NoArg, to |-> NoArg,
                            path |-> path, raised |-> "IndexError", text |-> "",
                            out |-> <<>>]
              /\ files' = files
         ELSE IF open_raises(path)
         THEN /\ result' = [op |-> "to_csv", from |-> NoArg, to |-> NoArg,
                            path |-> path, raised |-> "FinanceClientIOError",
                            text |-> "Unable to write json data into file '"
                                        \o path \o "'",
                            out |-> <<>>]
              /\ files' = files
         ELSE /\ result' = [op |-> "to_csv", from |-> NoArg, to |-> NoArg,
                            path |-> path, raised |-> "", text |-> "",
                            out |-> <<path>>]
              /\ files' = [files EXCEPT ![path] = to_csv(data_frame[1])]
    /\ UNCHANGED <<ties, ticker, api_key, env_key, pc, i, response, json_metadata,
                   json_data, data_frame, calls, error>>

Construct(blocks) ==
    \/ APIKeyConfiguration
    \/ QueryApi(blocks)
    \/ ProcessQueryResponse
    \/ ValidateQueryData
    \/ BuildDataFrame

Next == Construct(ClientBlocks) \/ Query

Spec == Init /\ [][Next]_vars

\* the table specification: the construction of a client for one ticker with a
\* usable key, over data blocks of every shape
InitTable == Init /\ Len(ticker) = 1 /\ api_key = PyStr("nokey") /\ env_key = PyNone

NextTable == Construct(TableBlocks)

SpecTable == InitTable /\ [][NextTable]_vars

\* dates of the query specification: two days of one month, and a day two
\* years later
QueryDates == {DateStr(2020, 1, 10), DateStr(2020, 1, 20), DateStr(2022, 2, 1)}

\* data blocks of the query specification: the expected shape, one to MaxRows
\* dates, the latest first as the API lists them
QueryBlocks ==
    {b \in ObjectBlocks(QueryDates, MaxRows) :
        /\ b.items # <<>>
        /\ \A k \in DOMAIN b.items : b.items[k].row \in WellFormedRows
        /\ \A a, b2 \in DOMAIN b.items :
              a < b2 => to_datetime(b.items[b2].date) < to_datetime(b.items[a].date)}

\* the query specification: a client for one ticker with a usable key, and
\* every query on the table it built
InitQuery == Init /\ ticker = <<"IBM">> /\ api_key = PyStr("nokey") /\ env_key = PyNone

NextQuery == Construct(QueryBlocks) \/ Query \/ Extremal

SpecQuery == InitQuery /\ [][NextQuery]_vars

\* the use specification: a client for any ticker list with a usable key, and
\* every method of the constructed client
InitUse == Init /\ api_key = PyStr("nokey") /\ env_key = PyNone

NextUse == Construct(ClientBlocks) \/ Query \/ Extremal \/ ToPandas \/ ToCsv

SpecUse == InitUse /\ [][NextUse]_vars

---------------------------------------------------------------------------
(* Properties *)

\* C1: a constructor call with no key argument (None or empty) and no
\* TEII_FINANCE_API_KEY in the environment, or whose resulting key is no
\* string, ends with FinanceClientInvalidAPIKey, and whenever construction
\* has ended so, requests.get has not been called, whatever the ticker list.
C1_InvalidKeyFailsBeforeTransport ==
    /\ [][(/\ pc = "init"
           /\ \/ (api_key \in {PyNone, PyStr("")} /\ env_key = PyNone)
              \/ api_key'.type # "str")
          => (/\ pc' = "failed"
              /\ error'.kind = "FinanceClientInvalidAPIKey"
              /\ calls' = <<>>)]_vars
    /\ [](error.kind = "FinanceClientInvalidAPIKey" => pc = "failed" /\ calls = <<>>)

\* C1 witness: a call with tickers and a key that is no string has failed
C1_Witness ==
    /\ error.kind = "FinanceClientInvalidAPIKey"
    /\ api_key.type = "int"
    /\ Len(ticker) = 2

\* the URL requests.get is given for a ticker
url_of(t) ==
    "https://www.alphavantage.co/query?function=TIME_SERIES_DAILY_ADJUSTED&symbol="
        \o t \o "&outputsize=full&apikey=" \o api_key.val

\* C2: the calls of requests.get follow the ticker list position by position
\* (call k is for ticker k, repeated or not, and no position is called
\* twice); once a step has raised, no further call is made; and when the
\* transport call, the response processing or the ticker validation of
\* position i raises, the calls made are those of positions 1..i.
C2_SequentialFailFast ==
    /\ [](/\ Len(calls) <= Len(ticker)
          /\ \A k \in DOMAIN calls : calls[k] = url_of(ticker[k])
          /\ pc \in {"query", "process", "validate"} => Len(calls) \in {i - 1, i}
          /\ error.where \in {"_query_api", "_process_query_response",
                               "_validate_query_data"} => Len(calls) = i)
    /\ [][error.kind # "" => calls' = calls]_vars

\* C2 witness: the second of two different tickers has been fetched and its
\* response processing has raised
C2_Witness ==
    /\ Len(ticker) = 2
    /\ ticker[1] # ticker[2]
    /\ Len(calls) = 2
    /\ error.where = "_process_query_response"

\* the canonical column names
CanonicalNames == {"open", "high", "low", "close", "aclose", "volume", "dividend",
                   "splitc"}

\* C3: construction ends with one table per requested ticker, each carrying
\* the canonical columns and one row per date of its data block, after every
\* ticker's metadata matched, or with an exception and no client; a query
\* has only ever run on a client built without exception.
C3_AllOrNothing ==
    /\ pc = "ready" =>
          /\ error = NoError
          /\ Len(data_frame) = Len(ticker)
          /\ Len(json_data) = Len(ticker)
          /\ \A k \in DOMAIN data_frame :
                /\ json_data[k].type = "object"
                /\ Len(data_frame[k].rows) = Len(json_data[k].items)
                /\ CanonicalNames \subseteq data_frame[k].columns
                /\ json_metadata[k].type = "object"
                /\ json_metadata[k].members["2. Symbol"] = ticker[k]
    /\ error.kind # "" <=> pc = "failed"
    /\ result # NoResult => pc = "ready" /\ error = NoError

\* C3 witness: a query has run on a client built for two tickers
C3_Witness ==
    /\ pc = "ready"
    /\ Len(ticker) = 2
    /\ Len(data_frame) = 2
    /\ result.op = "daily_price"

\* C4: _process_query_response raises FinanceClientInvalidData when the body
\* is no JSON object or lacks "Meta Data" or "Time Series (Daily)"; when both
\* keys are there it appends the two blocks as they are, whatever their shape.
C4_ResponseValidator ==
    [][pc = "process" =>
        IF /\ response.body.type = "object"
           /\ {"Meta Data", "Time Series (Daily)"} \subseteq DOMAIN response.body.members
        THEN /\ pc' = "validate"
             /\ error' = NoError
             /\ json_metadata' = Append(json_metadata, response.body.members["Meta Data"])
             /\ json_data' = Append(json_data, response.body.members["Time Series (Daily)"])
        ELSE /\ pc' = "failed"
             /\ error'.kind = "FinanceClientInvalidData"
             /\ json_metadata' = json_metadata
             /\ json_data' = json_data]_vars

\* C4 witness: the body of the second ticker held both keys, a string as
\* metadata and null as data, and was accepted
C4_Witness ==
    /\ pc = "validate"
    /\ i = 2
    /\ json_metadata[2] = MetaString
    /\ json_data[2] = NullBlock

\* C5: the ticker of each pass is checked against the metadata of the response
\* fetched in that pass: a missing or different "2. Symbol" raises
\* FinanceClientInvalidData, and the loop ends without exception only when
\* the metadata of every position names the ticker of that position.
C5_TickerConsistency ==
    /\ [][pc = "validate" =>
            LET own == response.body.members["Meta Data"]
            IN IF /\ own.type = "object"
                  /\ "2. Symbol" \in DOMAIN own.members
                  /\ own.members["2. Symbol"] = ticker[i]
               THEN pc' # "failed" /\ error' = NoError
               ELSE pc' = "failed" /\ error'.kind = "FinanceClientInvalidData"]_vars
    /\ [](pc \in {"build", "ready"} =>
            /\ Len(json_metadata) = Len(ticker)
            /\ \A k \in DOMAIN ticker :
                  /\ json_metadata[k].type = "object"
                  /\ "2. Symbol" \in DOMAIN json_metadata[k].members
                  /\ json_metadata[k].members["2. Symbol"] = ticker[k])

\* C5 witness: the metadata fetched for the second ticker named the first
\* ticker, and the validation of the second pass raised
C5_Witness ==
    /\ pc = "failed"
    /\ i = 2
    /\ error.where = "_validate_query_data"
    /\ ticker[1] # ticker[2]
    /\ json_metadata[2] = MetaWith(ticker[1])

\* C6: each transport failure of a pass (requests.get raises, a status other
\* than 200, a body that is no JSON) ends construction with
\* FinanceClientAPIError, whose message carries the URL and the status.
C6_TransportFailuresAreAPIErrors ==
    [][/\ (pc = "query" /\ pc' = "failed") =>
             /\ error'.kind = "FinanceClientAPIError"
             /\ error'.url = url_of(ticker[i])
             /\ error'.status # 200
       /\ (pc = "process" /\ response.body.type = "unparsable") =>
             error'.kind = "FinanceClientAPIError"]_vars

\* a data block in which some row carries a field key outside the mapping
schema_drift(block) ==
    /\ block.type = "object"
    /\ \E k \in DOMAIN block.items : ~(DOMAIN block.items[k].row \subseteq RawKeys)

\* C7: a data block with a field key outside _data_field2name_type ends
\* construction with FinanceClientInvalidData, and no table carries a column
\* other than the canonical ones.
C7_SchemaDriftRejected ==
    /\ \A k \in DOMAIN data_frame : data_frame[k].columns \subseteq CanonicalNames
    /\ pc = "ready" => \A k \in DOMAIN json_data : ~schema_drift(json_data[k])
    /\ (error.where = "_build_data_frame" /\ schema_drift(json_data[i])) =>
          error.kind = "FinanceClientInvalidData"

\* a data block in which a value of a mapped field is no number, or is
\* missing for some date
uncastable(block) ==
    /\ block.type = "object"
    /\ \E k \in DOMAIN block.items :
          \/ \E key \in DOMAIN block.items[k].row \cap RawKeys :
                block.items[k].row[key].t # "num"
          \/ ~(RawKeys \subseteq DOMAIN block.items[k].row)

\* C8: a data block with a value that cannot be cast to the type of its
\* column, or that lacks a value for some date, ends construction with
\* FinanceClientInvalidData and with no other exception.
C8_UncastableValuesRejected ==
    /\ pc = "ready" => \A k \in DOMAIN json_data : ~uncastable(json_data[k])
    /\ (error.where = "_build_data_frame" /\ uncastable(json_data[i])) =>
          error.kind = "FinanceClientInvalidData"

\* a data block of the expected shape: dates, each with the 8 fields, each a
\* numeric string
well_formed(block) ==
    /\ block.type = "object"
    /\ block.items # <<>>
    /\ \A k \in DOMAIN block.items :
          /\ DOMAIN block.items[k].row = RawKeys
          /\ \A key \in RawKeys : block.items[k].row[key].t = "num"

\* whether calendar day a is before calendar day b
before(a, b) ==
    \/ a.y < b.y
    \/ (a.y = b.y /\ a.m < b.m)
    \/ (a.y = b.y /\ a.m = b.m /\ a.d < b.d)

\* C9: the table built from a well-formed data block, whatever the order of
\* its dates, has one row per date of the block, in strictly ascending order
\* of date, each row holding a number in each of the 8 canonical columns; and
\* a well-formed block always yields a table.
C9_TableSortedAndComplete ==
    /\ \A k \in DOMAIN data_frame :
          well_formed(json_data[k]) =>
             LET rows == data_frame[k].rows
                 items == json_data[k].items
                 \* the date of the block that row a of the table stands for
                 item_of(a) == CHOOSE j \in DOMAIN items :
                                  Cardinality({x \in DOMAIN items :
                                                  before(items[x].date, items[j].date)}) = a - 1
             IN /\ Len(rows) = Len(items)
                /\ \A a, b \in DOMAIN rows : a < b => rows[a].label < rows[b].label
                /\ \A a \in DOMAIN rows :
                      /\ rows[a].label = to_datetime(items[item_of(a)].date)
                      /\ DOMAIN rows[a].cells = CanonicalNames
                      /\ \A n \in CanonicalNames : ~rows[a].cells[n].na
                      /\ rows[a].cells["close"].v = items[item_of(a)].row["4. close"].c
                      /\ rows[a].cells["volume"].v * 100 <= items[item_of(a)].row["6. volume"].c
                      /\ items[item_of(a)].row["6. volume"].c < (rows[a].cells["volume"].v + 1) * 100
    /\ error.where = "_build_data_frame" => ~well_formed(json_data[i])

\* C9 witness: a table built from a well-formed block that lists a later
\* date before an earlier one
C9_Witness ==
    /\ pc = "ready"
    /\ well_formed(json_data[1])
    /\ Len(json_data[1].items) = 2
    /\ before(json_data[1].items[2].date, json_data[1].items[1].date)
    /\ Len(data_frame[1].rows) = 2

\* C10: a range query called with both bounds and from > to raises
\* FinanceClientParamError and returns nothing, whatever the ticker list of
\* the client.
C10_InvertedRangeRaises ==
    (/\ result.op \in {"daily_price", "daily_volume", "yearly_dividends",
                       "yearly_dividends_per_quarter"}
     /\ result.from.given
     /\ result.to.given
     /\ result.from.v > result.to.v)
    => result.raised = "FinanceClientParamError"

\* the column a daily query reads
daily_column(op) == IF op = "daily_price" THEN "close" ELSE "volume"

\* C11: daily_price and daily_volume called without both bounds (none, only
\* from, only to) raise nothing and return, for each table, one entry per row
\* of the table, in the table's ascending order of date, carrying the row's
\* close (resp. volume), whatever the value of the single bound.
C11_OpenRangeReturnsWholeColumn ==
    (/\ result.op \in {"daily_price", "daily_volume"}
     /\ ~(result.from.given /\ result.to.given))
    => /\ result.raised = ""
       /\ Len(result.out) = Len(data_frame)
       /\ \A k \in DOMAIN data_frame :
             LET rows == data_frame[k].rows
             IN /\ Len(result.out[k]) = Len(rows)
                /\ \A j \in DOMAIN rows :
                      /\ result.out[k][j].label = rows[j].label
                      /\ result.out[k][j].value = rows[j].cells[daily_column(result.op)]
                /\ \A a, b \in DOMAIN rows :
                      a < b => result.out[k][a].label < result.out[k][b].label

\* C11 witness: daily_volume with only a from bound later than the first date
\* of a table of two dates has returned both rows
C11_Witness ==
    /\ result.op = "daily_volume"
    /\ result.from.given
    /\ ~result.to.given
    /\ Len(data_frame[1].rows) = 2
    /\ result.from.v > data_frame[1].rows[1].label
    /\ Len(result.out[1]) = 2

\* C12: daily_price and daily_volume called with both bounds and from <= to
\* raise nothing and return, for each table, exactly the rows whose date d
\* has from <= d <= to (both ends included), each once, in ascending order of
\* date, with the row's close (resp. volume); the bounds need not be dates
\* of the table, and no row in the range gives an empty series.
C12_ClosedRangeIsInclusive ==
    (/\ result.op \in {"daily_price", "daily_volume"}
     /\ result.from.given
     /\ result.to.given
     /\ result.from.v <= result.to.v)
    => /\ result.raised = ""
       /\ Len(result.out) = Len(data_frame)
       /\ \A k \in DOMAIN data_frame :
             LET rows == data_frame[k].rows
                 in_range == {j \in DOMAIN rows :
                                 /\ result.from.v <= rows[j].label
                                 /\ rows[j].label <= result.to.v}
                 series == result.out[k]
             IN /\ Len(series) = Cardinality(in_range)
                /\ \A a \in DOMAIN series :
                      \E j \in in_range :
                         /\ series[a].label = rows[j].label
                         /\ series[a].value = rows[j].cells[daily_column(result.op)]
                /\ \A a, b \in DOMAIN series :
                      a < b => series[a].label < series[b].label

\* C12 witness: daily_price from a day that is no date of the table to the
\* last date of the table has returned the later of two rows only
C12_Witness ==
    /\ result.op = "daily_price"
    /\ result.from.given
    /\ result.to.given
    /\ Len(data_frame[1].rows) = 2
    /\ data_frame[1].rows[1].label < result.from.v
    /\ result.from.v < data_frame[1].rows[2].label
    /\ result.to.v = data_frame[1].rows[2].label
    /\ Len(result.out[1]) = 1
    /\ result.out[1][1].label = data_frame[1].rows[2].label

RECURSIVE dividends_between(_, _, _)
\* the dividends of the rows dated from day lo to day hi, added up
dividends_between(rows, lo, hi) ==
    IF rows = <<>> THEN 0
    ELSE (IF lo <= rows[1].label /\ rows[1].label <= hi
          THEN rows[1].cells["dividend"].v ELSE 0)
         + dividends_between(Tail(rows), lo, hi)

\* the four digits of a year
year_label(y) == <<y \div 1000, (y \div 100) % 10, (y \div 10) % 10, y % 10>>

\* the calendar year of a row
calendar_year(row) == CHOOSE y \in 1900..2100 :
                         date(y, 1, 1) <= row.label /\ row.label <= date(y, 12, 31)

\* C13: yearly_dividends() without bounds raises nothing and returns, for each
\* table, one row per calendar year from the year of the first date to the
\* year of the last, in order, labelled with the year, whose value is the sum
\* of the dividends of the rows dated in that year: 0 for a year whose rows
\* all have dividend 0, and 0 for a year without rows.
C13_YearlyDividendsCoverEveryYear ==
    (/\ result.op = "yearly_dividends"
     /\ ~result.from.given
     /\ ~result.to.given)
    => /\ result.raised = ""
       /\ Len(result.out) = Len(data_frame)
       /\ \A k \in DOMAIN data_frame :
             LET rows == data_frame[k].rows
                 first == calendar_year(rows[1])
                 last == calendar_year(rows[Len(rows)])
                 series == result.out[k]
             IN /\ Len(series) = last - first + 1
                /\ \A a \in DOMAIN series :
                      /\ series[a].label = year_label(first + a - 1)
                      /\ series[a].value =
                            Num(dividends_between(rows, date(first + a - 1, 1, 1),
                                                  date(first + a - 1, 12, 31)))

\* C13 witness: the table has a row with a dividend in 2020 and a row without
\* dividend in 2022, and yearly_dividends() has returned the three years
\* 2020, 2021, 2022 with the dividend, 0 and 0
C13_Witness ==
    /\ result.op = "yearly_dividends"
    /\ ~result.from.given
    /\ ~result.to.given
    /\ Len(data_frame[1].rows) = 2
    /\ data_frame[1].rows[1].cells["dividend"].v > 0
    /\ data_frame[1].rows[2].cells["dividend"].v = 0
    /\ Len(result.out[1]) = 3
    /\ result.out[1][1].value = data_frame[1].rows[1].cells["dividend"]
    /\ result.out[1][2] = [label |-> <<2, 0, 2, 1>>, value |-> Num(0)]
    /\ result.out[1][3] = [label |-> <<2, 0, 2, 2>>, value |-> Num(0)]

\* C14: yearly_dividends and yearly_dividends_per_quarter called with both
\* bounds and from_year <= to_year raise nothing and return, for each table,
\* exactly the year rows (resp. the quarter rows: one per calendar quarter
\* between the first and the last row, labelled with the first day of the
\* quarter, valued the sum of the dividends of the rows dated in the quarter)
\* whose calendar year y has from_year <= y <= to_year, in order, for every
\* pair of integer years, years outside the table's range included.
C14_YearRangeSelectsByYear ==
    (/\ result.op \in {"yearly_dividends", "yearly_dividends_per_quarter"}
     /\ result.from.given
     /\ result.to.given
     /\ result.from.v <= result.to.v)
    => /\ result.raised = ""
       /\ Len(result.out) = Len(data_frame)
       /\ \A k \in DOMAIN data_frame :
             LET rows == data_frame[k].rows
                 first == rows[1].label
                 last == rows[Len(rows)].label
                 series == result.out[k]
                 years == {y \in calendar_year(rows[1])..calendar_year(rows[Len(rows)]) :
                             result.from.v <= y /\ y <= result.to.v}
                 quarters == {yq \in years \X (1..4) :
                                /\ date(yq[1], 3 * yq[2], 31) >= first
                                /\ date(yq[1], 3 * yq[2] - 2, 1) <= last}
             IN IF result.op = "yearly_dividends"
                THEN /\ Len(series) = Cardinality(years)
                     /\ \A a \in DOMAIN series :
                           \E y \in years :
                              /\ series[a].label = year_label(y)
                              /\ series[a].value =
                                    Num(dividends_between(rows, date(y, 1, 1),
                                                          date(y, 12, 31)))
                     /\ \A a, b \in DOMAIN series :
                           a < b => int(series[a].label) < int(series[b].label)
                ELSE /\ Len(series) = Cardinality(quarters)
                     /\ \A a \in DOMAIN series :
                           \E yq \in quarters :
                              /\ series[a].label = date(yq[1], 3 * yq[2] - 2, 1)
                              /\ series[a].value =
                                    Num(dividends_between(rows,
                                                          date(yq[1], 3 * yq[2] - 2, 1),
                                                          date(yq[1], 3 * yq[2], 31)))
                     /\ \A a, b \in DOMAIN series :
                           a < b => series[a].label < series[b].label

\* high - low of a row
spread(row) == row.cells["high"].v - row.cells["low"].v

\* whether tup is the tuple (date, high, low, high - low) of row
tuple_of_row(tup, row) ==
    /\ tup.label = row.label
    /\ tup.high = row.cells["high"]
    /\ tup.low = row.cells["low"]
    /\ ~tup.value.na
    /\ tup.value.num = spread(row) * tup.value.den

\* C15 as stated: highest_daily_variation() returns, for each table, the tuple
\* (date, high, low, high - low) of a row whose spread is the greatest of the
\* table, the one of earliest date when several rows share that spread.
C15_EarliestOfGreatestSpread ==
    result.op = "highest_daily_variation"
    => /\ result.raised = ""
       /\ Len(result.out) = Len(data_frame)
       /\ \A k \in DOMAIN data_frame :
             \E j \in DOMAIN data_frame[k].rows :
                /\ tuple_of_row(result.out[k], data_frame[k].rows[j])
                /\ \A x \in DOMAIN data_frame[k].rows :
                      /\ spread(data_frame[k].rows[x]) <= spread(data_frame[k].rows[j])
                      /\ spread(data_frame[k].rows[x]) = spread(data_frame[k].rows[j])
                            => j <= x

\* C15 amended: highest_daily_variation() returns, for each table, the tuple
\* (date, high, low, high - low) of a row whose spread is the greatest of the
\* table; which of several rows of that spread is returned is left open by
\* the sort, and it is the same row at every call on the client.
C15_SomeRowOfGreatestSpread ==
    /\ [](result.op = "highest_daily_variation"
          => /\ result.raised = ""
             /\ Len(result.out) = Len(data_frame)
             /\ \A k \in DOMAIN data_frame :
                   \E j \in DOMAIN data_frame[k].rows :
                      /\ tuple_of_row(result.out[k], data_frame[k].rows[j])
                      /\ \A x \in DOMAIN data_frame[k].rows :
                            spread(data_frame[k].rows[x])
                               <= spread(data_frame[k].rows[j]))
    /\ [][(/\ result.op = "highest_daily_variation"
            /\ result'.op = "highest_daily_variation")
           => result'.out = result.out]_vars

\* C15 witness: two rows share the greatest spread and
\* highest_daily_variation() has returned the later one
C15_Witness ==
    /\ result.op = "highest_daily_variation"
    /\ Len(data_frame[1].rows) = 2
    /\ spread(data_frame[1].rows[1]) = spread(data_frame[1].rows[2])
    /\ result.out[1].label = data_frame[1].rows[2].label

\* the first day of the calendar month of a row
month_start_of(row) ==
    CHOOSE s \in {date(y, m, 1) : y \in 2000..2030, m \in 1..12} :
        s <= row.label /\ row.label <= s + 30

\* the positions of the rows of the calendar month that starts on day s
rows_of_month(rows, s) == {j \in DOMAIN rows : month_start_of(rows[j]) = s}

RECURSIVE spreads_of(_, _)
\* the spreads of the rows at the positions J, added up
spreads_of(rows, J) ==
    IF J = {} THEN 0
    ELSE LET j == CHOOSE j \in J : TRUE
         IN spread(rows[j]) + spreads_of(rows, J \ {j})

\* whether the mean spread of the month starting on a is at most that of the
\* month starting on b (both months hold rows)
mean_le(rows, a, b) ==
    spreads_of(rows, rows_of_month(rows, a)) * Cardinality(rows_of_month(rows, b))
       <= spreads_of(rows, rows_of_month(rows, b)) * Cardinality(rows_of_month(rows, a))

\* whether tup is the pair (first day, mean spread) of the month starting on
\* s, a month that holds rows and whose mean spread no month with rows exceeds
pair_of_greatest_month(tup, rows, s) ==
    /\ rows_of_month(rows, s) # {}
    /\ tup.label = s
    /\ ~tup.value.na
    /\ tup.value.num * Cardinality(rows_of_month(rows, s))
          = spreads_of(rows, rows_of_month(rows, s)) * tup.value.den
    /\ \A x \in DOMAIN rows : mean_le(rows, month_start_of(rows[x]), s)

\* C16 as stated: highest_monthly_mean_variation() returns, for each table,
\* the pair (first day of the month, mean spread) of the calendar month whose
\* mean of high - low over its rows is the greatest among the months that
\* hold a row, never a month without rows, and the earliest month when
\* several months share that mean.
C16_EarliestMonthOfGreatestMean ==
    result.op = "highest_monthly_mean_variation"
    => /\ result.raised = ""
       /\ Len(result.out) = Len(data_frame)
       /\ \A k \in DOMAIN data_frame :
             LET rows == data_frame[k].rows
             IN \E j \in DOMAIN rows :
                   /\ pair_of_greatest_month(result.out[k], rows, month_start_of(rows[j]))
                   /\ \A x \in DOMAIN rows :
                         mean_le(rows, month_start_of(rows[j]), month_start_of(rows[x]))
                            => month_start_of(rows[j]) <= month_start_of(rows[x])

\* C16 amended: highest_monthly_mean_variation() returns, for each table, the
\* pair (first day of the month, mean spread) of a calendar month that holds
\* a row and whose mean of high - low over its rows is the greatest among
\* such months; which of several months of that mean is returned is left
\* open by the sort, and it is the same month at every call on the client.
C16_SomeMonthOfGreatestMean ==
    /\ [](result.op = "highest_monthly_mean_variation"
          => /\ result.raised = ""
             /\ Len(result.out) = Len(data_frame)
             /\ \A k \in DOMAIN data_frame :
                   \E j \in DOMAIN data_frame[k].rows :
                      pair_of_greatest_month(result.out[k], data_frame[k].rows,
                                             month_start_of(data_frame[k].rows[j])))
    /\ [][(/\ result.op = "highest_monthly_mean_variation"
            /\ result'.op = "highest_monthly_mean_variation")
           => result'.out = result.out]_vars

\* C16 witness: the two rows of the table lie in two months that are not
\* neighbours and have the same spread, and
\* highest_monthly_mean_variation() has returned the later month
C16_Witness ==
    /\ result.op = "highest_monthly_mean_variation"
    /\ Len(data_frame[1].rows) = 2
    /\ spread(data_frame[1].rows[1]) = spread(data_frame[1].rows[2])
    /\ month_start_of(data_frame[1].rows[1]) + 31 < month_start_of(data_frame[1].rows[2])
    /\ result.out[1].label = month_start_of(data_frame[1].rows[2])

\* whether table is the table of the data block: one row per date of the
\* block, carrying the close of that date
table_of_block(table, block) ==
    /\ Len(table.rows) = Len(block.items)
    /\ \A j \in DOMAIN block.items :
          \E r \in DOMAIN table.rows :
             /\ table.rows[r].label = to_datetime(block.items[j].date)
             /\ table.rows[r].cells["close"].v = block.items[j].row["4. close"].c

\* whether entry is what the call recorded in result computes on table alone
computed_from(entry, table) ==
    CASE result.op = "daily_price" ->
            entry = daily_series(table, "close", result.from, result.to)
      [] result.op = "daily_volume" ->
            entry = daily_series(table, "volume", result.from, result.to)
      [] result.op = "yearly_dividends" ->
            entry = yearly_series(table, result.from, result.to)
      [] result.op = "yearly_dividends_per_quarter" ->
            entry = quarterly_series(table, result.from, result.to)
      [] result.op = "highest_daily_variation" ->
            \E pick \in 1..heads(high_low(table)) : entry = daily_tuple(table, pick)
      [] result.op = "highest_monthly_mean_variation" ->
            \E pick \in 1..heads(mean_variation(table)) :
               entry = monthly_tuple(table, pick)
      [] result.op = "to_pandas" -> entry = table

\* C17: the data block kept at position i is the one of the response fetched
\* from the URL of ticker i; a constructed client holds one table per entry
\* of the ticker list (repeated tickers included), table i being the table of
\* data block i; and every query and to_pandas() that returns gives one
\* result per table, result i being what the method computes on table i.
C17_PositionalCorrespondence ==
    /\ [][(pc = "process" /\ pc' = "validate")
           => /\ response.url = url_of(ticker[i])
              /\ calls[i] = response.url
              /\ Len(json_data') = i
              /\ json_data'[i] = response.body.members["Time Series (Daily)"]]_vars
    /\ [][json_data # <<>> => SubSeq(json_data', 1, Len(json_data)) = json_data]_vars
    /\ [](pc = "ready"
          => /\ Len(data_frame) = Len(ticker)
             /\ Len(json_data) = Len(ticker)
             /\ \A k \in DOMAIN ticker : table_of_block(data_frame[k], json_data[k]))
    /\ []((result.op \notin {"", "to_csv"} /\ result.raised = "")
          => /\ Len(result.out) = Len(ticker)
             /\ \A k \in DOMAIN ticker : computed_from(result.out[k], data_frame[k]))

\* C17 witness: a client for the same ticker twice holds two different
\* tables, and daily_price() has returned two different series, each that of
\* its table
C17_Witness ==
    /\ pc = "ready"
    /\ Len(ticker) = 2
    /\ ticker[1] = ticker[2]
    /\ data_frame[1] # data_frame[2]
    /\ result.op = "daily_price"
    /\ result.raised = ""
    /\ result.out[1] # result.out[2]
    /\ result.out[2][1].value = data_frame[2].rows[1].cells["close"]

RangeQueries == {"daily_price", "daily_volume", "yearly_dividends",
                 "yearly_dividends_per_quarter"}
ExtremalQueries == {"highest_daily_variation", "highest_monthly_mean_variation"}

\* C18: no call of the six queries, a call that raises
\* FinanceClientParamError included, changes the ticker list, the data blocks
\* or the tables of the client; the result of a call is fixed by the method,
\* its arguments and the tables alone (with, for rows or months of equal key,
\* the order the sort gave them, which never changes once seen), so it is the
\* same whatever calls came before and the same at every repetition.
C18_QueriesLeaveTablesAlone ==
    /\ [][pc = "ready"
           => /\ data_frame' = data_frame
              /\ json_data' = json_data
              /\ json_metadata' = json_metadata
              /\ ticker' = ticker
              /\ pc' = "ready"
              /\ error' = error]_vars
    /\ [](result.op \in RangeQueries
          => IF /\ result.from.given
                /\ result.to.given
                /\ result.from.v > result.to.v
                /\ data_frame # <<>>
             THEN result.raised = "FinanceClientParamError" /\ result.out = <<>>
             ELSE /\ result.raised = ""
                  /\ Len(result.out) = Len(data_frame)
                  /\ \A k \in DOMAIN data_frame :
                        computed_from(result.out[k], data_frame[k]))
    /\ [](result.op \in ExtremalQueries
          => /\ result.raised = ""
             /\ Len(result.out) = Len(data_frame)
             /\ \A k \in DOMAIN data_frame :
                   computed_from(result.out[k], data_frame[k]))
    /\ [][(result.op \in ExtremalQueries /\ result'.op = result.op)
           => result' = result]_vars
    /\ [][ties \subseteq ties']_vars
    /\ [](\A a, b \in ties : (a.op = b.op /\ a.k = b.k) => a.pick = b.pick)

\* C18 witness: after a highest_daily_variation() that met two rows of equal
\* spread and a highest_monthly_mean_variation(), a range query with
\* from > to has raised FinanceClientParamError on a client that still holds
\* its table of two rows
C18_Witness ==
    /\ pc = "ready"
    /\ result.raised = "FinanceClientParamError"
    /\ \E a, b \in ties : a.op = "highest_daily_variation"
                            /\ b.op = "highest_monthly_mean_variation"
    /\ Len(data_frame) = 1
    /\ Len(data_frame[1].rows) = 2
    /\ data_frame[1].columns = CanonicalNames

\* the number a text of digits spells, in hundredths for a text with a point
\* (one or two digits after it), NaN for the empty text
parsed(text) ==
    IF text.whole = <<>> THEN NaN
    ELSE IF text.frac = <<>> THEN Num(int(text.whole))
    ELSE Num(int(text.whole) * 100
             + (IF Len(text.frac) = 1 THEN 10 * text.frac[1] ELSE int(text.frac)))

\* the table read back from a file: the header as columns, the first field of
\* each line as a date, the other fields as numbers
read_csv(file) ==
    [columns |-> file.header,
     rows |-> [k \in DOMAIN file.lines |->
                  [label |-> to_datetime(file.lines[k].label),
                   cells |-> [c \in file.header |-> parsed(file.lines[k].fields[c])]]]]

\* C19: to_csv(path) on a constructed client either returns path, after
\* which the file at path reads back as the rows and the dates of the first
\* table of the client, or raises FinanceClientIOError with a message that
\* holds path, the file not being written; and it leaves the tables as they
\* were.
C19_ExportRoundTrip ==
    /\ [](result.op = "to_csv"
          => \/ /\ result.raised = ""
                /\ result.out = <<result.path>>
                /\ files[result.path].exists
                /\ read_csv(files[result.path]) = data_frame[1]
             \/ /\ result.raised = "FinanceClientIOError"
                /\ result.text = "Unable to write json data into file '"
                                     \o result.path \o "'"
                /\ ~files[result.path].exists)
    /\ [][(pc = "ready" /\ result'.op = "to_csv") => data_frame' = data_frame]_vars

\* C20 as stated: the table of ticker i is built before the consistency check
\* of ticker i and before the transport call of ticker i + 1, and a query has
\* only run on the finished set of tables.
C20_PerTickerStageOrder ==
    /\ pc = "validate" => Len(data_frame) >= i
    /\ \A k \in DOMAIN calls : Len(data_frame) >= k - 1
    /\ result # NoResult => (pc = "ready" /\ Len(data_frame) = Len(ticker))

\* C20 amended: each pass runs transport call, response validation and ticker
\* consistency check in that order, the pass of ticker i + 1 starting after
\* ticker i has been validated; no table exists before the last ticker has
\* been validated; the tables are then built in the order of the ticker
\* list, table i after table i - 1; and a query has only run on a client that
\* holds one table per ticker.
C20_FetchAllThenBuildAll ==
    /\ [][(<<pc, pc'>> \in {<<"init", "query">>, <<"init", "ready">>, <<"init", "failed">>,
                           <<"query", "process">>, <<"query", "failed">>,
                           <<"process", "validate">>, <<"process", "failed">>,
                           <<"validate", "query">>, <<"validate", "build">>,
                           <<"validate", "failed">>,
                           <<"build", "build">>, <<"build", "ready">>,
                           <<"build", "failed">>,
                           <<"ready", "ready">>})]_vars
    /\ [][(pc = "validate" /\ pc' = "query") => i' = i + 1]_vars
    /\ [][(pc = "init" /\ pc' = "ready") => ticker = <<>>]_vars
    /\ [](pc \in {"init", "query", "process", "validate"}
          => /\ data_frame = <<>>
             /\ Len(calls) \in {i - 1, i})
    /\ [](pc = "build"
          => /\ Len(calls) = Len(ticker)
             /\ Len(json_data) = Len(ticker)
             /\ Len(data_frame) = i - 1)
    /\ [][pc = "build" => \/ data_frame' = data_frame
                          \/ /\ Len(data_frame') = i
                             /\ SubSeq(data_frame', 1, i - 1) = data_frame]_vars
    /\ [](pc = "ready" => Len(data_frame) = Len(ticker))
    /\ [](result # NoResult => pc = "ready")

\* C20 witness: both tickers have been fetched and checked, the first table
\* is built and the second is not yet
C20_Witness ==
    /\ pc = "build"
    /\ Len(ticker) = 2
    /\ i = 2
    /\ Len(calls) = 2
    /\ Len(json_metadata) = 2
    /\ Len(data_frame) = 1

====
